---- MODULE Spec2Model ----
(***************************************************************************)
(* Token bucket with threshold (threshold-bucket).                         *)
(*                                                                         *)
(* Inner (src/src/inner.rs) is the shared token store: an atomic token     *)
(* count `available`, an atomic refill-due marker `refill_at` (whole       *)
(* milliseconds since `start`) and the immutable configuration.  Threads   *)
(* call try_permit and try_acquire; every atomic load, compare-exchange    *)
(* and fetch_add of try_acquire / refill is one step of the calling        *)
(* thread, so every interleaving the atomics allow is a behaviour.         *)
(*                                                                         *)
(* Durations are counted in ticks of 1/TicksPerMilli millisecond, so that  *)
(* Duration::as_millis (a truncation) is not the identity.  The clock is   *)
(* observable only where the code reads it (start.elapsed()): `now` is the *)
(* latest instant read, and each read may find any later instant.          *)
(***************************************************************************)
EXTENDS Integers, FiniteSets, Sequences, TLC

\* ---------------------------------------------------------------- bounds
\* Latest instant a thread may read, in ticks.
MaxTime == 4
\* Largest amount a concurrent caller asks for.
MaxNum == 2
\* Attempts of the compare-and-swap loop of try_acquire: stands for the
\* 0x10000 of `for _ in 0..0x10000`, scaled down so that the loop can be
\* exhausted by the interference two threads can produce.
MaxAttempts == 2
\* Ticks per millisecond: a Duration is finer than the milliseconds that
\* refill_at is stored in.
TicksPerMilli == 2
\* 2^64 scaled down: the counter is a u64, fetch_add wraps around.  No sum
\* of a count within max and a refill amount comes near it.
U64Modulus == 16

\* The caller threads; SpecSeq runs the first alone.
Threads == {1, 2}
Nums == 1..MaxNum

\* Configurations a bucket is built with: tokens per interval (refill),
\* interval (ticks; 2 ticks is 1 ms, 3 ticks is 1.5 ms), threshold (0: none)
\* and max, with threshold + refill <= max so that the bucket starts within
\* its capacity.
Configs ==
    { [refill |-> 1, interval |-> 2, threshold |-> 2, max |-> 4],
      [refill |-> 2, interval |-> 2, threshold |-> 0, max |-> 4],
      [refill |-> 1, interval |-> 3, threshold |-> 0, max |-> 3] }

\* The bucket the threads acquire from, and a second bucket built with the
\* same configuration that only issues permits (and may be dropped).
This == "this"
Other == "other"
NoPermit == "none"

VARIABLES
    refill,          \* Inner.refill: tokens credited per interval
    interval,        \* Inner.interval, in ticks
    max,             \* Inner.max
    threshold,       \* Inner.threshold
    available,       \* Inner.available (AtomicU64) of This
    refill_at,       \* Inner.refill_at (AtomicU64, milliseconds) of This
    now,             \* latest start.elapsed() any thread has read, in ticks
    otherAlive,      \* whether the Arc<Inner> of Other still has an owner
    overflow_checks, \* build profile, fixed by the first overflowing operation
    okSum,           \* history: sum of n over the calls that returned Ok(n)
    credited,        \* history: sum of the amounts the refills handed to fetch_add
    advanced,        \* history: number of intervals refill_at was advanced by
    th               \* per thread: position, locals and the call's history

vars == <<refill, interval, max, threshold, available, refill_at, now,
          otherAlive, overflow_checks, okSum, credited, advanced, th>>

history == <<okSum, credited, advanced>>

config == <<refill, interval, max, threshold>>

\* ------------------------------------------------------------ conversions
\* Duration::as_millis() as u64
AsMillis(d) == d \div TicksPerMilli

\* Duration::from_millis
FromMillis(m) == m * TicksPerMilli

Min(a, b) == IF a <= b THEN a ELSE b

\* AtomicU64::fetch_add wraps around
WrappingAdd(a, b) == (a + b) % U64Modulus

\* u64 subtraction that wraps around
WrappingSub(a, b) == (a - b + U64Modulus) % U64Modulus

\* u64::saturating_sub
SaturatingSub(a, b) == IF a >= b THEN a - b ELSE 0

\* Inner::new: available starts at threshold + refill
InitialAvailable == threshold + refill

\* Inner::new: refill_at starts at interval.as_millis()
InitialRefillAt == AsMillis(interval)

\* Inner::available of either bucket; no thread acquires from Other, so its
\* count stays where Inner::new put it.
AvailableOf(b) == IF b = This THEN available ELSE InitialAvailable

\* (mutant) a clone that builds a store of its own from the configuration
CloneCopiesStore(b) == Other

\* Bucket::clone (derived): the Arc is cloned, the new handle refers to the
\* store of the handle it was cloned from.
Clone(b) == b

\* The Bucket handle a thread calls through: the first thread holds the
\* bucket that was built, every other thread a clone of it.
HandleOf(t) == IF t = 1 THEN This ELSE Clone(This)

\* ---------------------------------------------------------- thread state
\* refill_res: the Result<(), Duration> of Inner::refill
NotReturned == <<>>
RefillOk == <<"Ok">>
RefillErr(d) == <<"Err", d>>

Idle(p) ==
    [pc |-> "idle", permit |-> p, num |-> 0, elapsed |-> 0, ra |-> 0,
     intervals |-> 0, av |-> 0, refill_res |-> NotReturned, attempts |-> 0,
     res |-> "none", wait |-> 0, used |-> NoPermit]

InCall(t) == th[t].pc \notin {"idle", "permit_ret", "panicked"}

Set(t, r) == th' = [th EXCEPT ![t] = r]

\* The locals of Inner::refill go out of scope when it returns.
LeaveRefill(r, result) ==
    [r EXCEPT !.pc = "acquire_load", !.refill_res = result, !.elapsed = 0,
              !.ra = 0, !.intervals = 0, !.av = 0]

Init ==
    /\ \E c \in Configs :
          /\ refill = c.refill
          /\ interval = c.interval
          /\ threshold = c.threshold
          /\ max = c.max
    /\ available = InitialAvailable
    /\ refill_at = InitialRefillAt
    /\ now = 0
    /\ otherAlive = TRUE
    /\ overflow_checks = "unset"
    /\ okSum = 0
    /\ credited = 0
    /\ advanced = 0
    /\ th = [t \in Threads |-> Idle(NoPermit)]

\* ---------------------------------------------------------------- actions
\* The last Bucket handle of Other is dropped; permits keep only a Weak.
DropOther ==
    /\ otherAlive
    /\ otherAlive' = FALSE
    /\ UNCHANGED <<config, available, refill_at, now, overflow_checks, history, th>>

\* (mutant) a strict comparison with the threshold
PermitGrantedStrict(avail, thr) == avail > thr

\* Inner::try_permit, the comparison
PermitGranted(avail, thr) == avail >= thr

\* Inner::try_permit on bucket b: one atomic load of available.
TryPermit(t, b) ==
    /\ th[t].pc = "idle"
    /\ th[t].permit = NoPermit
    /\ b = Other => otherAlive
    /\ LET a == AvailableOf(b)
           ok == PermitGranted(a, threshold)
       IN Set(t, [Idle(IF ok THEN b ELSE NoPermit) EXCEPT
                    !.pc = "permit_ret",
                    !.res = IF ok THEN "Permit" ELSE "ExceedMaxTokens",
                    !.used = b])
    /\ UNCHANGED <<config, available, refill_at, now, otherAlive,
                   overflow_checks, history>>

\* Weak::upgrade of a permit of bucket p: the store must still be owned.
\* This is alive for as long as a thread calls it.
Upgrade(p) == IF p = This THEN TRUE ELSE otherAlive

\* Inner::check_permit for a permit of bucket p presented to This:
\* Ok iff the upgrade succeeds and !ptr::eq(permit's store, self).
CheckPermit(p) == Upgrade(p) /\ ~(p = This)

\* Permit::addr (permit/mod.rs): Weak::upgrade(&self.bucket).map(Arc::as_ptr),
\* the store the permit of bucket p resolves to, or none
Addr(p) == IF Upgrade(p) THEN <<p>> ELSE <<>>

\* AlwaysPermitter::belongs of the permitter of This:
\* permit.addr().map(|inner| ptr::eq(self.inner, inner)).unwrap_or(false)
AlwaysPermitterBelongs(p) ==
    IF Addr(p) # <<>> THEN Addr(p)[1] = This ELSE FALSE

\* (mutant) the comparison negated, as Inner::check_permit has it
BelongsNegated(p) ==
    IF Addr(p) # <<>> THEN ~(Addr(p)[1] = This) ELSE FALSE

\* ThresholdPermitter::belongs of the permitter of This (the same code)
ThresholdPermitterBelongs(p) ==
    IF Addr(p) # <<>> THEN Addr(p)[1] = This ELSE FALSE

\* (mutant) a try_acquire that borrows the permit and leaves it with the caller
TryAcquireBorrowsPermit(t, n, e) ==
    /\ th[t].pc = "idle"
    /\ th[t].permit # NoPermit
    /\ LET p == th[t].permit
           mine == [Idle(p) EXCEPT !.num = n, !.used = p]
       IN IF CheckPermit(p)
          THEN /\ now' = e
               /\ Set(t, [mine EXCEPT !.pc = "refill_load", !.elapsed = e])
          ELSE /\ now' = now
               /\ e = now
               /\ Set(t, [mine EXCEPT !.pc = "done", !.res = "InvalidPermit"])
    /\ UNCHANGED <<config, available, refill_at, otherAlive,
                   overflow_checks, history>>

\* (mutant) a try_acquire that goes to the deduction loop without the refill
TryAcquireSkipsRefill(t, n, e) ==
    /\ th[t].pc = "idle"
    /\ th[t].permit # NoPermit
    /\ LET p == th[t].permit
           mine == [Idle(NoPermit) EXCEPT !.num = n, !.used = p]
       IN IF CheckPermit(p)
          THEN /\ now' = e
               /\ Set(t, [mine EXCEPT !.pc = "acquire_load",
                                      !.refill_res = RefillErr(0)])
          ELSE /\ now' = now
               /\ e = now
               /\ Set(t, [mine EXCEPT !.pc = "done", !.res = "InvalidPermit"])
    /\ UNCHANGED <<config, available, refill_at, otherAlive,
                   overflow_checks, history>>

\* Inner::try_acquire, entry: the permit is moved into the call and checked,
\* then start.elapsed() is read (as e) for the refill.
TryAcquire(t, n, e) ==
    /\ th[t].pc = "idle"
    /\ th[t].permit # NoPermit
    /\ LET p == th[t].permit
           mine == [Idle(NoPermit) EXCEPT !.num = n, !.used = p]
       IN IF CheckPermit(p)
          THEN /\ now' = e
               /\ Set(t, [mine EXCEPT !.pc = "refill_load", !.elapsed = e])
          ELSE /\ now' = now
               /\ e = now
               /\ Set(t, [mine EXCEPT !.pc = "done", !.res = "InvalidPermit"])
    /\ UNCHANGED <<config, available, refill_at, otherAlive,
                   overflow_checks, history>>

\* Inner::refill, the number of elapsed intervals:
\* 1 + (elapsed - refill_at).as_nanos() / interval.as_nanos()
ElapsedIntervals(elapsed, refillAt) == 1 + (elapsed - refillAt) \div interval

\* Inner::refill, the next marker: refill_at + interval * intervals
NextRefillAt(refillAt, k) == refillAt + interval * k

\* Inner::refill: load refill_at; not due yet => Err(refill_at - elapsed)
RefillLoad(t) ==
    /\ th[t].pc = "refill_load"
    /\ LET r == FromMillis(refill_at)
           e == th[t].elapsed
       IN IF e < r
          THEN Set(t, LeaveRefill(th[t], RefillErr(r - e)))
          ELSE Set(t, [th[t] EXCEPT !.pc = "refill_cas", !.ra = refill_at,
                                    !.intervals = ElapsedIntervals(e, r)])
    /\ UNCHANGED <<config, available, refill_at, now, otherAlive,
                   overflow_checks, history>>

\* (mutant) a compare-and-swap that fails although nothing was written
CasSpuriouslyFails(current, expected) == FALSE

\* (mutant) a store where the code has a compare-and-swap
CasAlwaysSucceeds(current, expected) == TRUE

\* AtomicU64::compare_exchange succeeds iff the current value is the expected one
CasSucceeds(current, expected) == current = expected

\* Inner::refill: compare_exchange on refill_at; the loser re-reads
RefillCas(t) ==
    /\ th[t].pc = "refill_cas"
    /\ LET r == FromMillis(th[t].ra)
           next == AsMillis(NextRefillAt(r, th[t].intervals))
       IN IF CasSucceeds(refill_at, AsMillis(r))
          THEN /\ refill_at' = next
               /\ advanced' = advanced + th[t].intervals
               /\ Set(t, [th[t] EXCEPT !.pc = "refill_avail"])
          ELSE /\ refill_at' = refill_at
               /\ advanced' = advanced
               /\ Set(t, [th[t] EXCEPT !.pc = "refill_load", !.ra = 0,
                                       !.intervals = 0])
    /\ UNCHANGED <<config, available, now, otherAlive, overflow_checks, okSum,
                   credited>>

\* Inner::refill: load available
RefillAvail(t) ==
    /\ th[t].pc = "refill_avail"
    /\ Set(t, [th[t] EXCEPT !.pc = "refill_add", !.av = available])
    /\ UNCHANGED <<config, available, refill_at, now, otherAlive,
                   overflow_checks, history>>

\* The build profile an overflowing operation runs under: a debug build
\* panics, a release build wraps; one build is one profile throughout.
Profiles == IF overflow_checks = "unset" THEN {"panic", "wrap"} ELSE {overflow_checks}

\* Inner::refill: the amount handed to fetch_add, from the value loaded
\* before: max - available when available + amount >= max, else amount
\* (the arithmetic of a release build; a debug build panics where it wraps)
RefillAmount(av, amount) ==
    IF WrappingAdd(av, amount) >= max THEN WrappingSub(max, av) ELSE amount

\* Whether available + amount or max - available overflows a u64
Overflows(av, amount) ==
    \/ av + amount >= U64Modulus
    \/ av + amount >= max /\ max < av

\* Inner::refill: intervals * refill, the saturation test and the fetch_add
RefillAdd(t) ==
    /\ th[t].pc = "refill_add"
    /\ LET amount == th[t].intervals * refill
           av == th[t].av
       IN \E p \in (IF Overflows(av, amount) THEN Profiles ELSE {"none"}) :
             /\ overflow_checks' = IF p = "none" THEN overflow_checks ELSE p
             /\ IF p = "panic"
                THEN /\ available' = available
                     /\ credited' = credited
                     /\ Set(t, [th[t] EXCEPT !.pc = "panicked"])
                ELSE /\ available' = WrappingAdd(available, RefillAmount(av, amount))
                     /\ credited' = credited + RefillAmount(av, amount)
                     /\ Set(t, LeaveRefill(th[t], RefillOk))
    /\ UNCHANGED <<config, refill_at, now, otherAlive, okSum, advanced>>

\* (mutant) an off-by-one in the test of the loop head
NotEnoughOffByOne(avail, num) == avail <= num

\* Inner::try_acquire, the test of the loop head: available < num
NotEnough(avail, num) == avail < num

\* Inner::try_acquire, the Duration put into NotEnoughTokens:
\* match refill_res { Ok(_) => self.start.elapsed(), Err(err) => err }
NotEnoughTokensWait(refill_res, e) ==
    IF refill_res = RefillOk THEN e ELSE refill_res[2]

\* Inner::try_acquire, loop head: load available; too few => NotEnoughTokens
\* with its duration, for which start.elapsed() is read (as e) when the
\* refill of this call returned Ok.
AcquireLoad(t, e) ==
    /\ th[t].pc = "acquire_load"
    /\ IF NotEnough(available, th[t].num) /\ th[t].refill_res = RefillOk
       THEN now' = e
       ELSE now' = now /\ e = now
    /\ IF NotEnough(available, th[t].num)
       THEN Set(t, [th[t] EXCEPT !.pc = "done", !.av = available,
                                 !.res = "NotEnoughTokens", !.attempts = 0,
                                 !.wait = NotEnoughTokensWait(th[t].refill_res, e)])
       ELSE Set(t, [th[t] EXCEPT !.pc = "acquire_cas", !.av = available])
    /\ UNCHANGED <<config, available, refill_at, otherAlive,
                   overflow_checks, history>>

\* (mutant) a deduction that is written before the compare-and-swap decides
AcquireCasWritesOnFailure(t) ==
    /\ th[t].pc = "acquire_cas"
    /\ available' = SaturatingSub(available, th[t].num)
    /\ IF CasSucceeds(available, th[t].av)
       THEN /\ okSum' = okSum + th[t].num
            /\ Set(t, [th[t] EXCEPT !.pc = "done", !.res = "Ok", !.attempts = 0])
       ELSE /\ okSum' = okSum
            /\ IF th[t].attempts + 1 >= MaxAttempts
               THEN Set(t, [th[t] EXCEPT !.pc = "done", !.res = "HighContention",
                                         !.attempts = th[t].attempts + 1])
               ELSE Set(t, [th[t] EXCEPT !.pc = "acquire_load",
                                         !.attempts = th[t].attempts + 1])
    /\ UNCHANGED <<config, refill_at, now, otherAlive, overflow_checks,
                   credited, advanced>>

\* Inner::try_acquire: compare_exchange(available, available - num); after
\* the last of the attempts the loop ends with HighContention.
AcquireCas(t) ==
    /\ th[t].pc = "acquire_cas"
    /\ IF CasSucceeds(available, th[t].av)
       THEN /\ available' = SaturatingSub(th[t].av, th[t].num)
            /\ okSum' = okSum + th[t].num
            /\ Set(t, [th[t] EXCEPT !.pc = "done", !.res = "Ok", !.attempts = 0])
       ELSE /\ available' = available
            /\ okSum' = okSum
            /\ IF th[t].attempts + 1 >= MaxAttempts
               THEN Set(t, [th[t] EXCEPT !.pc = "done", !.res = "HighContention",
                                         !.attempts = th[t].attempts + 1])
               ELSE Set(t, [th[t] EXCEPT !.pc = "acquire_load",
                                         !.attempts = th[t].attempts + 1])
    /\ UNCHANGED <<config, refill_at, now, otherAlive, overflow_checks,
                   credited, advanced>>

\* The call returns to its caller, which keeps the permit try_permit gave it.
Return(t) ==
    /\ th[t].pc \in {"done", "permit_ret"}
    /\ Set(t, Idle(th[t].permit))
    /\ UNCHANGED <<config, available, refill_at, now, otherAlive,
                   overflow_checks, history>>

Step(t, nums) ==
    \/ \E b \in {This, Other} : TryPermit(t, b)
    \/ \E n \in nums, e \in now..MaxTime : TryAcquire(t, n, e)
    \/ RefillLoad(t)
    \/ RefillCas(t)
    \/ RefillAvail(t)
    \/ RefillAdd(t)
    \/ \E e \in now..MaxTime : AcquireLoad(t, e)
    \/ AcquireCas(t)
    \/ Return(t)

\* Any number of threads call concurrently.
Next ==
    \/ DropOther
    \/ \E t \in Threads : Step(t, Nums)

Spec == Init /\ [][Next]_vars

\* The steps of a call under way.  A thread inside try_acquire keeps
\* running: the code neither blocks nor sleeps, so the scheduler lets each
\* call take its next step.
CallStep(t) ==
    \/ RefillLoad(t)
    \/ RefillCas(t)
    \/ RefillAvail(t)
    \/ RefillAdd(t)
    \/ \E e \in now..MaxTime : AcquireLoad(t, e)
    \/ AcquireCas(t)

FairSpec == Spec /\ \A t \in Threads : WF_vars(CallStep(t))

\* One caller, no concurrent calls.
NextSeq ==
    \/ DropOther
    \/ Step(1, 0..(max + 1))

SpecSeq == Init /\ [][NextSeq]_vars

\* Time passes while no call runs: the clock behind start.elapsed() goes on
\* between the calls of a caller that waits before it tries again.
Sleep(e) ==
    /\ \A t \in Threads : th[t].pc = "idle"
    /\ e > now
    /\ now' = e
    /\ UNCHANGED <<config, available, refill_at, otherAlive, overflow_checks,
                   history, th>>

\* One caller that may wait between its calls.
NextRetry ==
    \/ NextSeq
    \/ \E e \in now..MaxTime : Sleep(e)

SpecRetry == Init /\ [][NextRetry]_vars

\* -------------------------------------------- RateRefill (refill/rate.rs)
\* The constant-rate refill strategy keeps its own refill_at and is handed
\* the token counter of the store; `available` is that counter, `refill`
\* its quantity.  Threads call RateRefill::refill with the elapsed time
\* they read.

\* RateRefill::new: refill_at starts at interval.as_millis(); the counter
\* starts at the initial count the builder was given (0 by default).
InitRate ==
    /\ \E c \in Configs :
          /\ refill = c.refill
          /\ interval = c.interval
          /\ threshold = c.threshold
          /\ max = c.max
    /\ available \in 0..max
    /\ refill_at = InitialRefillAt
    /\ now = 0
    /\ otherAlive = TRUE
    /\ overflow_checks = "unset"
    /\ okSum = 0
    /\ credited = 0
    /\ advanced = 0
    /\ th = [t \in Threads |-> Idle(NoPermit)]

\* A caller reads the elapsed time e and calls RateRefill::refill(e, tokens).
RateCall(t, e) ==
    /\ th[t].pc = "idle"
    /\ now' = e
    /\ Set(t, [Idle(NoPermit) EXCEPT !.pc = "rate_load", !.elapsed = e])
    /\ UNCHANGED <<config, available, refill_at, otherAlive, overflow_checks,
                   history>>

\* RateRefill::refill: load refill_at; not due yet => return
RateLoad(t) ==
    /\ th[t].pc = "rate_load"
    /\ LET r == FromMillis(refill_at)
           e == th[t].elapsed
       IN IF e < r
          THEN Set(t, [th[t] EXCEPT !.pc = "rate_done", !.res = "NotDue"])
          ELSE Set(t, [th[t] EXCEPT !.pc = "rate_cas", !.ra = refill_at,
                                    !.intervals = ElapsedIntervals(e, r)])
    /\ UNCHANGED <<config, available, refill_at, now, otherAlive,
                   overflow_checks, history>>

\* RateRefill::refill: compare_exchange on refill_at.  On success the loop
\* is left (break) and the function returns; the statements that credit the
\* tokens follow the break inside the loop body, so they run after a failed
\* compare_exchange.
RateCas(t) ==
    /\ th[t].pc = "rate_cas"
    /\ LET r == FromMillis(th[t].ra)
           next == AsMillis(NextRefillAt(r, th[t].intervals))
       IN IF CasSucceeds(refill_at, AsMillis(r))
          THEN /\ refill_at' = next
               /\ advanced' = advanced + th[t].intervals
               /\ Set(t, [th[t] EXCEPT !.pc = "rate_done", !.res = "Advanced"])
          ELSE /\ refill_at' = refill_at
               /\ advanced' = advanced
               /\ Set(t, [th[t] EXCEPT !.pc = "rate_avail"])
    /\ UNCHANGED <<config, available, now, otherAlive, overflow_checks, okSum,
                   credited>>

\* RateRefill::refill: load tokens
RateAvail(t) ==
    /\ th[t].pc = "rate_avail"
    /\ Set(t, [th[t] EXCEPT !.pc = "rate_add", !.av = available])
    /\ UNCHANGED <<config, available, refill_at, now, otherAlive,
                   overflow_checks, history>>

\* RateRefill::refill: intervals * quantity, the saturation test and the
\* fetch_add; then the loop starts over
RateAdd(t) ==
    /\ th[t].pc = "rate_add"
    /\ LET amount == th[t].intervals * refill
           av == th[t].av
       IN \E p \in (IF Overflows(av, amount) THEN Profiles ELSE {"none"}) :
             /\ overflow_checks' = IF p = "none" THEN overflow_checks ELSE p
             /\ IF p = "panic"
                THEN /\ available' = available
                     /\ credited' = credited
                     /\ Set(t, [th[t] EXCEPT !.pc = "panicked"])
                ELSE /\ available' = WrappingAdd(available, RefillAmount(av, amount))
                     /\ credited' = credited + RefillAmount(av, amount)
                     /\ Set(t, [th[t] EXCEPT !.pc = "rate_load", !.ra = 0,
                                             !.intervals = 0, !.av = 0])
    /\ UNCHANGED <<config, refill_at, now, otherAlive, okSum, advanced>>

\* RateRefill::refill returns to its caller.
RateReturn(t) ==
    /\ th[t].pc = "rate_done"
    /\ Set(t, Idle(NoPermit))
    /\ UNCHANGED <<config, available, refill_at, now, otherAlive,
                   overflow_checks, history>>

\* (mutant) the number of intervals rounded up instead of down
WaitForRoundsUp(avail, requested) ==
    IF requested < avail
    THEN 0
    ELSE FromMillis(refill_at)
            + interval * ((requested - avail + refill - 1) \div refill)

\* RateRefill::wait_for(available, requested), one load of refill_at:
\* zero if requested < available, else from_millis(refill_at) +
\* interval * ((requested - available) / quantity)
WaitFor(avail, requested) ==
    IF requested < avail
    THEN 0
    ELSE FromMillis(refill_at) + interval * ((requested - avail) \div refill)

\* A caller hands the count it loaded and the amount it was asked for to
\* RateRefill::wait_for and gets the estimate back.
RateWaitFor(t, requested) ==
    /\ th[t].pc = "idle"
    /\ Set(t, [Idle(NoPermit) EXCEPT !.pc = "rate_done", !.res = "WaitFor",
                                     !.av = available, !.num = requested,
                                     !.wait = WaitFor(available, requested)])
    /\ UNCHANGED <<config, available, refill_at, now, otherAlive,
                   overflow_checks, history>>

NextRate ==
    \E t \in Threads :
        \/ \E e \in now..MaxTime : RateCall(t, e)
        \/ \E requested \in 0..(max + 1) : RateWaitFor(t, requested)
        \/ RateLoad(t)
        \/ RateCas(t)
        \/ RateAvail(t)
        \/ RateAdd(t)
        \/ RateReturn(t)

SpecRate == InitRate /\ [][NextRate]_vars

\* ------------------------------------------------------------------ claims
\* C1: in every reachable state, under every interleaving of concurrent
\* try_acquire calls, 0 <= available <= max, the states between a refill's
\* load of available and its fetch_add included.
C1_AvailableWithinMax == 0 <= available /\ available <= max

\* C2: no double-spend, no lost update: while no refill boundary has been
\* reached, whatever the interleaving of the concurrent try_acquire calls,
\* available is the starting count minus the sum of the amounts n of exactly
\* the calls that returned Ok(n).
C2_NoLostUpdate ==
    refill_at = InitialRefillAt => available = InitialAvailable - okSum

\* Two calls race for the counter: one has deducted and returned Ok, the
\* other holds the value it loaded before that deduction.
C2_Witness ==
    /\ refill_at = InitialRefillAt
    /\ \E t, u \in Threads :
          /\ t # u
          /\ th[t].pc = "done" /\ th[t].res = "Ok"
          /\ th[u].pc = "acquire_cas"
          /\ th[u].av = available + th[t].num
          /\ okSum = th[t].num

\* No refill call is in progress.
Quiescent == \A t \in Threads : th[t].pc \in {"idle", "rate_done", "done", "permit_ret"}

\* C3: in RateRefill::refill every interval boundary the marker is advanced
\* past is credited exactly once, by the thread whose compare-and-swap
\* advanced it, however many threads see the boundary (one included): once
\* the calls have returned and while max is not reached, the tokens credited
\* are quantity times the number of intervals advanced.
C3_EachBoundaryCreditedOnce ==
    (Quiescent /\ available < max) => credited = advanced * refill

\* C4: exact refill.  With no acquire so far and no earlier refill, a refill
\* that runs with elapsed = k whole intervals since creation (k >= 1)
\* computes k intervals and leaves available = min(initial + k*quantity, max)
\* and the refill-due marker at (k+1)*interval.
C4_ExactRefill ==
    [][\A t \in Threads, k \in 1..MaxTime :
         ( /\ th[t].pc = "refill_add" /\ th'[t].pc = "acquire_load"
           /\ th[t].elapsed = k * interval
           /\ th[t].ra = InitialRefillAt
           /\ okSum = 0 )
         => /\ th[t].intervals = k
            /\ available' = Min(InitialAvailable + k * refill, max)
            /\ FromMillis(refill_at') = (k + 1) * interval]_vars

\* C5: a permit obtained from the other bucket and presented to try_acquire
\* of this bucket is always rejected with InvalidPermit: such a call never
\* gets past the permit check.
C5_CrossBucketRejected ==
    \A t \in Threads :
        (InCall(t) /\ th[t].used = Other)
            => (th[t].pc = "done" /\ th[t].res = "InvalidPermit")

\* C6: with no concurrent callers, a permit obtained from the bucket's own
\* try_permit is accepted by its try_acquire: the call returns Ok(n) and
\* leaves available at the previous value minus n whenever n <= available,
\* so it can fail only for lack of tokens.
C6_OwnPermitAccepted ==
    \A t \in Threads :
        (th[t].pc = "done" /\ th[t].used = This)
            => \/ th[t].res = "Ok" /\ available = th[t].av - th[t].num
               \/ th[t].res = "NotEnoughTokens" /\ th[t].num > th[t].av

C8_Boundary ==
    \A t \in Threads :
        (th[t].pc = "done" /\ th[t].refill_res # NotReturned
                           /\ th[t].refill_res # RefillOk)
            => /\ th[t].num = th[t].av
                    => th[t].res = "Ok" /\ available = 0
               /\ th[t].num = th[t].av + 1
                    => th[t].res = "NotEnoughTokens" /\ available = th[t].av

\* The call took exactly the tokens that were there.
C8_Witness ==
    \E t \in Threads :
        /\ th[t].pc = "done" /\ th[t].refill_res # NotReturned
        /\ th[t].refill_res # RefillOk
        /\ th[t].num = th[t].av /\ th[t].av > 0
        /\ th[t].res = "Ok" /\ available = 0

Errors == {"InvalidPermit", "NotEnoughTokens", "HighContention"}

\* C9 (as claimed): a try_acquire call that returns an error leaves the
\* shared state, available and the refill-due marker, as it was before the
\* call: it has neither advanced the marker nor credited tokens.
C9_FailureLeavesStateUntouched ==
    \A t \in Threads :
        (th[t].pc = "done" /\ th[t].res \in Errors) => th[t].refill_res # RefillOk

\* C9 (amended): a call rejected with InvalidPermit has not run the refill,
\* and no step of the deduction loop changes available or the marker except
\* the successful compare-and-swap, which takes exactly n and returns Ok(n):
\* a call that returns an error has deducted nothing.
C9_DeductionAllOrNothing ==
    /\ [](\A t \in Threads :
            th[t].res = "InvalidPermit" => th[t].refill_res = NotReturned)
    /\ [][\A t \in Threads :
            (th[t].pc \in {"acquire_load", "acquire_cas"} /\ th'[t] # th[t])
            => /\ refill_at' = refill_at
               /\ IF th'[t].res = "Ok"
                  THEN available' = available - th[t].num
                  ELSE available' = available]_vars

\* A call fails for lack of tokens after its refill advanced the marker.
C9_Witness ==
    \E t \in Threads :
        /\ th[t].pc = "done" /\ th[t].res = "NotEnoughTokens"
        /\ th[t].refill_res = RefillOk

\* A try_acquire call is under way (it has neither returned nor panicked).
Running(t) ==
    th[t].pc \in {"refill_load", "refill_cas", "refill_avail", "refill_add",
                  "acquire_load", "acquire_cas"}

\* C10: bounded retry.  Every try_acquire call terminates under any
\* concurrent load; its compare-and-swap loop makes at most MaxAttempts
\* attempts; an attempt is counted as lost only when a concurrent writer
\* changed available since the load, and HighContention is returned only
\* after every one of the attempts was lost; a call that observes
\* available < n returns NotEnoughTokens, never HighContention.
C10_BoundedRetry ==
    /\ [](\A t \in Threads :
            /\ th[t].attempts <= MaxAttempts
            /\ th[t].pc \in {"acquire_load", "acquire_cas"}
                  => th[t].attempts < MaxAttempts
            /\ th[t].res = "HighContention" => th[t].attempts = MaxAttempts)
    /\ [][\A t \in Threads :
            /\ th'[t].attempts > th[t].attempts
                  => /\ th[t].pc = "acquire_cas"
                     /\ available # th[t].av
                     /\ th'[t].attempts = th[t].attempts + 1
            /\ (th[t].pc = "acquire_load" /\ th'[t] # th[t]
                  /\ available < th[t].num)
                  => th'[t].res = "NotEnoughTokens"]_vars
    /\ \A t \in Threads : Running(t) ~> ~Running(t)

\* A call gave up after losing every attempt.
C10_Witness ==
    \E t \in Threads :
        /\ th[t].pc = "done" /\ th[t].res = "HighContention"
        /\ th[t].attempts = MaxAttempts

\* C11: a permit request refused because available is below the threshold
\* fails with NotEnoughTokens, an outcome that carries a wait estimate for
\* refilling the shortfall threshold - available.
C11_RefusalCarriesWait ==
    \A t \in Threads :
        (th[t].pc = "permit_ret" /\ th[t].res # "Permit")
            => th[t].res = "NotEnoughTokens"

\* The refill boundary by which a shortfall will have accrued: tokens fall
\* due at the marker and at every interval after it, refill at a time.
AccrualBoundary(shortfall) ==
    FromMillis(refill_at) + interval * ((shortfall + refill - 1) \div refill - 1)

\* C12: when try_acquire(permit, n) fails because available < n, the
\* NotEnoughTokens outcome carries the refill strategy's wait estimate for
\* the shortfall n - available (the estimate of wait_for, or counted from
\* the instant of the call: the time until the boundary by which the missing
\* tokens will have accrued), whether or not the call applied a refill and
\* also for shortfalls larger than one interval's quantity.
C12_WaitCoversShortfall ==
    \A t \in Threads :
        (th[t].pc = "done" /\ th[t].res = "NotEnoughTokens")
            => \/ th[t].wait = WaitFor(th[t].av, th[t].num)
               \/ now + th[t].wait = AccrualBoundary(th[t].num - th[t].av)

\* A step of thread t that enters try_acquire.
EntersAcquire(t) ==
    th[t].pc = "idle" /\ th'[t].pc \notin {"idle", "permit_ret"}

\* C13: single-use permit.  The permit is consumed by the one try_acquire
\* call it is passed to, whether the call succeeds or fails: a call takes
\* the permit its caller holds and leaves the caller with none, during the
\* call and after it, and a caller comes to hold a permit only by a granted
\* try_permit; so no permit is accepted by two acquire calls.
C13_SingleUsePermit ==
    /\ [](\A t \in Threads :
            th[t].pc \notin {"idle", "permit_ret"} => th[t].permit = NoPermit)
    /\ [][\A t \in Threads :
            /\ EntersAcquire(t)
                  => /\ th[t].permit # NoPermit
                     /\ th'[t].used = th[t].permit
                     /\ th'[t].permit = NoPermit
            /\ (th'[t].permit # NoPermit /\ th'[t].permit # th[t].permit)
                  => /\ th[t].permit = NoPermit
                     /\ th'[t].pc = "permit_ret" /\ th'[t].res = "Permit"
            /\ (th[t].pc = "done" /\ th'[t] # th[t])
                  => th'[t].permit = NoPermit]_vars

\* A call that took the caller's permit has succeeded and another that took
\* one has failed; neither caller holds a permit any more.
C13_Witness ==
    \E t, u \in Threads :
        /\ th[t].pc = "done" /\ th[t].res = "Ok"
        /\ th[t].used # NoPermit /\ th[t].permit = NoPermit
        /\ th[u].pc = "done" /\ th[u].res \in Errors
        /\ th[u].used # NoPermit /\ th[u].permit = NoPermit

C15_BelongsIffSameStore ==
    \A t \in Threads :
        LET p == th[t].permit
        IN p # NoPermit
           => /\ AlwaysPermitterBelongs(p) <=> p = This
              /\ ThresholdPermitterBelongs(p) <=> p = This
              /\ p = Other => /\ ~AlwaysPermitterBelongs(p)
                              /\ ~ThresholdPermitterBelongs(p)

\* One thread holds a permit of this store, the other a permit of the other
\* store, which has been dropped while the permit was held.
C15_Witness ==
    \E t, u \in Threads :
        /\ th[t].permit = This /\ ThresholdPermitterBelongs(th[t].permit)
        /\ th[u].permit = Other /\ ~otherAlive
        /\ ~ThresholdPermitterBelongs(th[u].permit)
        /\ ~AlwaysPermitterBelongs(th[u].permit)

\* C16: RateRefill::wait_for(available, requested) returns a zero duration
\* for every input with requested <= available, requested = available
\* included.
C16_ZeroWaitWhenCovered ==
    \A t \in Threads :
        (th[t].pc = "rate_done" /\ th[t].res = "WaitFor" /\ th[t].num <= th[t].av)
            => th[t].wait = 0

\* A step of thread t that calls wait_for with requested > available.
WaitForShort(t) ==
    /\ th[t].pc = "idle" /\ th'[t].pc = "rate_done" /\ th'[t].res = "WaitFor"
    /\ th'[t].num > th'[t].av

C18_PermitHonouredBelowThreshold ==
    [][\A t \in Threads :
         /\ (EntersAcquire(t) /\ th[t].permit = This)
               => th'[t].pc = "refill_load"
         /\ (th[t].pc = "acquire_cas" /\ th'[t] # th[t] /\ available = th[t].av)
               => th'[t].res = "Ok" /\ available' = available - th[t].num
         /\ (th[t].pc = "idle" /\ th'[t].pc = "permit_ret")
               => available' = available]_vars

\* C19: try_acquire runs the permit check, then the refill for the time
\* elapsed since creation, then the deduction loop.  A call rejected with
\* InvalidPermit has run no refill and written nothing; a call that passed
\* the check enters the refill, and the loop is entered only when the refill
\* has returned.  With one caller the refill has by then advanced the marker
\* past every boundary due at the elapsed time and credited the tokens (up
\* to max), and the loop deducts from the credited count: if available < n
\* before the call but available plus the due refill is >= n, the call
\* returns Ok.
C19_RefillBeforeDeduction ==
    /\ [](\A t \in Threads :
            /\ th[t].res = "InvalidPermit" => th[t].refill_res = NotReturned
            /\ th[t].pc \in {"acquire_load", "acquire_cas"}
                  => th[t].refill_res # NotReturned
            /\ ( /\ th[t].pc = "done" /\ th[t].refill_res = RefillOk
                 /\ advanced = 1
                 /\ okSum = (IF th[t].res = "Ok" THEN th[t].num ELSE 0)
                 /\ InitialAvailable < th[t].num
                 /\ th[t].num <= Min(InitialAvailable + refill, max) )
                  => th[t].res = "Ok")
    /\ [][\A t \in Threads :
            /\ EntersAcquire(t)
                  => IF th'[t].res = "InvalidPermit"
                     THEN available' = available /\ refill_at' = refill_at
                     ELSE th'[t].pc = "refill_load" /\ th'[t].elapsed = now'
            /\ (th[t].pc = "refill_add" /\ th'[t].pc = "acquire_load")
                  => /\ advanced >= th[t].elapsed \div interval
                     /\ available' = Min(available + th[t].intervals * refill, max)
            /\ (th[t].pc = "acquire_load" /\ th'[t] # th[t])
                  => IF available >= th[t].num
                     THEN th'[t].pc = "acquire_cas"
                     ELSE th'[t].res = "NotEnoughTokens"
            /\ (th[t].pc = "acquire_cas" /\ th'[t] # th[t])
                  => th'[t].res = "Ok" /\ available' = available - th[t].num]_vars

\* The first refill of the bucket was applied by a call that asked for more
\* than was available before it, and the call returned Ok.
C19_Witness ==
    \E t \in Threads :
        /\ th[t].pc = "done" /\ th[t].res = "Ok"
        /\ th[t].refill_res = RefillOk /\ advanced = 1
        /\ okSum = th[t].num /\ th[t].num > InitialAvailable

\* C20: a threshold bucket recovers with time.  When available is below the
\* threshold, no caller holds a permit or is inside a call, and the time by
\* which the whole refill intervals bring the count back to the threshold
\* has passed, a caller that retries try_permit is granted a permit.
C20_PermitGrantedAfterWait ==
    [][\A t \in Threads :
         ( /\ th[t].pc = "idle" /\ th'[t].pc = "permit_ret"
           /\ th'[t].used = This
           /\ \A u \in Threads : th[u].pc = "idle" /\ th[u].permit = NoPermit
           /\ available < threshold /\ threshold <= max
           /\ now >= AccrualBoundary(threshold - available) )
         => th'[t].res = "Permit"]_vars

\* No thread is between the compare-and-swap that advanced the marker and
\* the fetch_add that credits the intervals it advanced by.
NoRefillInFlight ==
    \A t \in Threads : th[t].pc \notin {"refill_avail", "refill_add", "panicked"}

\* C21: for Inner::refill under any interleaving of concurrent try_acquire
\* calls made at different elapsed times, the refill-due marker never
\* decreases and stays a whole multiple of interval, and each boundary it
\* advances past is credited by exactly one thread: while max is not
\* reached (the boundaries advanced past do not fill the bucket) the tokens
\* credited by the refills completed so far are quantity times the number
\* of boundaries advanced past.
C21_MarkerAndCredits ==
    /\ [][refill_at' >= refill_at]_vars
    /\ [](FromMillis(refill_at) % interval = 0)
    /\ []((NoRefillInFlight /\ InitialAvailable + advanced * refill <= max)
             => credited = advanced * refill)

====
